---- MODULE Spec2Model ----
(***************************************************************************)
(* Mean-time-to-update analyzer (M42_mean_time_to_update/mttu.go).         *)
(* The three analyzers analyzeNPM, analyzeGo and analyzePy share one       *)
(* commit loop; the model runs that loop one commit and one dependency at  *)
(* a time, with the ecosystem chosen at configuration time.                *)
(*                                                                         *)
(* A version string is a sequence of one-character strings, so that        *)
(* canon and semver.Compare are computed on the text as the code does.     *)
(* Times are whole days.                                                   *)
(***************************************************************************)
EXTENDS Integers, Sequences, FiniteSets, TLC

----------------------------------------------------------------------------
(* Strings *)

\* The characters the model's strings use, in ASCII order.
Alphabet == <<"+", "-", ".", "0", "1", "2", "3", "4", "5", "6", "7", "8", "9",
              "a", "b", "c", "r", "v", "x">>

Ord(c) == CHOOSE i \in 1..Len(Alphabet) : Alphabet[i] = c

Digits == {"0", "1", "2", "3", "4", "5", "6", "7", "8", "9"}

IsDigit(c) == c \in Digits

\* isIdentChar of semver: [0-9A-Za-z-]
isIdentChar(c) == c \in Digits \cup {"a", "b", "c", "r", "v", "x", "-"}

Drop(s, n) == SubSeq(s, n + 1, Len(s))

Take(s, n) == SubSeq(s, 1, n)

\* strings.HasPrefix(v, "v")
HasPrefixV(v) == Len(v) > 0 /\ v[1] = "v"

\* Go's string comparison x < y (bytewise lexicographic).
RECURSIVE StrLess(_, _)
StrLess(x, y) ==
    IF y = <<>> THEN FALSE
    ELSE IF x = <<>> THEN TRUE
    ELSE IF x[1] # y[1] THEN Ord(x[1]) < Ord(y[1])
    ELSE StrLess(Tail(x), Tail(y))

\* Length of the longest prefix of s made of characters of the set cs.
RECURSIVE PrefixLen(_, _)
PrefixLen(s, cs) ==
    IF s = <<>> \/ s[1] \notin cs THEN 0 ELSE 1 + PrefixLen(Tail(s), cs)

\* Index of the first occurrence of character c in s, Len(s)+1 when absent.
RECURSIVE IndexOf(_, _)
IndexOf(s, c) ==
    IF s = <<>> \/ s[1] = c THEN 1 ELSE 1 + IndexOf(Tail(s), c)

\* The dot separated identifiers of s.
RECURSIVE SplitDots(_)
SplitDots(s) ==
    LET i == IndexOf(s, ".")
    IN  IF i > Len(s) THEN <<s>>
        ELSE <<Take(s, i - 1)>> \o SplitDots(Drop(s, i))

----------------------------------------------------------------------------
(* golang.org/x/mod/semver, as used by canon and by the analyzers *)

Fail == [ok |-> FALSE, t |-> <<>>, rest |-> <<>>]

\* parseInt: a decimal number without leading zeroes, and the rest.
parseIntAt(v, i) ==
    IF i = 0 THEN Fail
    ELSE IF v[1] = "0" /\ i # 1 THEN Fail
    ELSE [ok |-> TRUE, t |-> Take(v, i), rest |-> Drop(v, i)]

parseInt(v) == parseIntAt(v, PrefixLen(v, Digits))

isNum(v) == PrefixLen(v, Digits) = Len(v)

isBadNum(v) == PrefixLen(v, Digits) = Len(v) /\ Len(v) > 1 /\ v[1] = "0"

\* parsePrerelease: "-" and dot separated identifiers, up to a "+" or the end.
parsePrereleaseAt(v, i, body, ids) ==
    IF /\ \A k \in 1..Len(body) : isIdentChar(body[k]) \/ body[k] = "."
       /\ \A k \in 1..Len(ids) : ids[k] # <<>> /\ ~isBadNum(ids[k])
    THEN [ok |-> TRUE, t |-> Take(v, i - 1), rest |-> Drop(v, i - 1)]
    ELSE Fail

parsePrerelease(v) ==
    IF v = <<>> \/ v[1] # "-" THEN Fail
    ELSE parsePrereleaseAt(v, IndexOf(v, "+"), SubSeq(v, 2, IndexOf(v, "+") - 1),
                           SplitDots(SubSeq(v, 2, IndexOf(v, "+") - 1)))

\* parseBuild: "+" and dot separated non-empty identifiers, to the end.
parseBuildAt(v, body, ids) ==
    IF /\ \A k \in 1..Len(body) : isIdentChar(body[k]) \/ body[k] = "."
       /\ \A k \in 1..Len(ids) : ids[k] # <<>>
    THEN [ok |-> TRUE, t |-> v, rest |-> <<>>]
    ELSE Fail

parseBuild(v) ==
    IF v = <<>> \/ v[1] # "+" THEN Fail
    ELSE parseBuildAt(v, Drop(v, 1), SplitDots(Drop(v, 1)))

NoParse == [ok |-> FALSE, major |-> <<>>, minor |-> <<>>, patch |-> <<>>,
            short |-> <<>>, prerelease |-> <<>>, build |-> <<>>]

Rest(v) == [ok |-> TRUE, t |-> <<>>, rest |-> v]

\* The end of parse: after prerelease and build nothing may follow.
parseEnd(p, pre, bld) ==
    IF ~bld.ok THEN NoParse
    ELSE IF bld.rest # <<>> THEN NoParse
    ELSE [p EXCEPT !.ok = TRUE, !.prerelease = pre.t, !.build = bld.t]

parseBuildPart(p, pre) ==
    IF ~pre.ok THEN NoParse
    ELSE parseEnd(p, pre, IF Len(pre.rest) > 0 /\ pre.rest[1] = "+"
                          THEN parseBuild(pre.rest) ELSE Rest(pre.rest))

parseTail(p, v) ==
    parseBuildPart(p, IF Len(v) > 0 /\ v[1] = "-" THEN parsePrerelease(v) ELSE Rest(v))

parsePatch(ma, mi, pa) ==
    IF ~pa.ok THEN NoParse
    ELSE parseTail([NoParse EXCEPT !.major = ma.t, !.minor = mi.t, !.patch = pa.t], pa.rest)

parseMinor(ma, mi) ==
    IF ~mi.ok THEN NoParse
    ELSE IF mi.rest = <<>>
    THEN [NoParse EXCEPT !.ok = TRUE, !.major = ma.t, !.minor = mi.t,
                         !.patch = <<"0">>, !.short = <<".", "0">>]
    ELSE IF mi.rest[1] # "." THEN NoParse
    ELSE parsePatch(ma, mi, parseInt(Drop(mi.rest, 1)))

parseMajor(ma) ==
    IF ~ma.ok THEN NoParse
    ELSE IF ma.rest = <<>>
    THEN [NoParse EXCEPT !.ok = TRUE, !.major = ma.t, !.minor = <<"0">>,
                         !.patch = <<"0">>, !.short = <<".", "0", ".", "0">>]
    ELSE IF ma.rest[1] # "." THEN NoParse
    ELSE parseMinor(ma, parseInt(Drop(ma.rest, 1)))

\* parse: vMAJOR[.MINOR[.PATCH[-PRERELEASE][+BUILD]]]
parse(v) ==
    IF v = <<>> \/ v[1] # "v" THEN NoParse
    ELSE parseMajor(parseInt(Drop(v, 1)))

\* semver.Canonical: "" for an invalid version, else the version without build
\* metadata and with a shortened form completed.
CanonicalOf(v, p) ==
    IF ~p.ok THEN <<>>
    ELSE IF p.build # <<>> THEN Take(v, Len(v) - Len(p.build))
    ELSE IF p.short # <<>> THEN v \o p.short
    ELSE v

Canonical(v) == CanonicalOf(v, parse(v))

compareInt(x, y) ==
    IF x = y THEN 0
    ELSE IF Len(x) < Len(y) THEN -1
    ELSE IF Len(x) > Len(y) THEN 1
    ELSE IF StrLess(x, y) THEN -1 ELSE 1

\* nextIdent: the identifier up to the next dot.
nextIdent(x) == Take(x, IndexOf(x, ".") - 1)

compareIdent(dx, dy, ix, iy) ==
    IF ix # iy THEN (IF ix THEN -1 ELSE 1)
    ELSE IF ix /\ Len(dx) < Len(dy) THEN -1
    ELSE IF ix /\ Len(dx) > Len(dy) THEN 1
    ELSE IF StrLess(dx, dy) THEN -1 ELSE 1

RECURSIVE comparePrereleaseLoop(_, _)
comparePrereleaseStep(x1, y1, dx, dy) ==
    IF dx # dy THEN compareIdent(dx, dy, isNum(dx), isNum(dy))
    ELSE comparePrereleaseLoop(Drop(x1, Len(dx)), Drop(y1, Len(dy)))

comparePrereleaseLoop(x, y) ==
    IF x = <<>> \/ y = <<>>
    THEN IF x = <<>> THEN -1 ELSE 1
    ELSE comparePrereleaseStep(Drop(x, 1), Drop(y, 1),
                               nextIdent(Drop(x, 1)), nextIdent(Drop(y, 1)))

comparePrerelease(x, y) ==
    IF x = y THEN 0
    ELSE IF x = <<>> THEN 1
    ELSE IF y = <<>> THEN -1
    ELSE comparePrereleaseLoop(x, y)

compareParsed(pv, pw, cMajor, cMinor, cPatch) ==
    IF cMajor # 0 THEN cMajor
    ELSE IF cMinor # 0 THEN cMinor
    ELSE IF cPatch # 0 THEN cPatch
    ELSE comparePrerelease(pv.prerelease, pw.prerelease)

compareValid(pv, pw) ==
    IF ~pv.ok /\ ~pw.ok THEN 0
    ELSE IF ~pv.ok THEN -1
    ELSE IF ~pw.ok THEN 1
    ELSE compareParsed(pv, pw, compareInt(pv.major, pw.major),
                       compareInt(pv.minor, pw.minor), compareInt(pv.patch, pw.patch))

\* semver.Compare: -1, 0 or +1; an invalid version is less than a valid one.
semverCompare(v, w) == compareValid(parse(v), parse(w))

\* canon: a version without "v" gets the prefix when it is not valid as written.
canonOf(v, vTemp) ==
    IF vTemp = <<>> /\ ~HasPrefixV(v) THEN Canonical(<<"v">> \o v)
    ELSE vTemp

canon(v) == canonOf(v, Canonical(v))

----------------------------------------------------------------------------
(* Inputs: dependencies, declared versions, manifests, registry answers *)

MaxCommits == 3

MaxChanges == 2

MaxLagDays == 365

Deps == {"a", "b"}

Ecos == {"npm", "go", "py"}

V100 == <<"1", ".", "0", ".", "0">>

V110 == <<"1", ".", "1", ".", "0">>

Vv11 == <<"v", "1", ".", "1">>

V120 == <<"1", ".", "2", ".", "0">>

V1x  == <<"1", ".", "x">>

\* The raw version strings a manifest may declare for each dependency.
RawVersions(d) == IF d = "a" THEN {V100, V110, Vv11, V120, V1x} ELSE {V100, V110}

\* The dependency maps an extractor (npmVersions, goVersions, pyVersions,
\* cfgVersions) may return for a manifest text.
Snapshots ==
    UNION { { f \in [S -> UNION {RawVersions(d) : d \in Deps}] :
                \A d \in S : f[d] \in RawVersions(d) } : S \in SUBSET Deps }

EmptySnapshot == [d \in {} |-> V100]

\* A manifest file of a commit: absent (c.File fails), or present with the
\* dependency map its extractor returns.
File(snap) == [present |-> TRUE, deps |-> snap]

NoFile == [present |-> FALSE, deps |-> EmptySnapshot]

Files == {NoFile} \cup {File(s) : s \in Snapshots}

\* setup.cfg contents of the pinned-requirements ecosystem.
CfgFiles == {NoFile, File(EmptySnapshot), File([d \in {"a"} |-> V120]),
             File([d \in {"b"} |-> V110])}

\* A commit that cannot be read at all (r.CommitObject fails).
NoCommit == [readable |-> FALSE, files |-> <<>>]

\* What a commit holds for the active ecosystem: nothing readable, or the
\* manifest file(s) of the ecosystem.
Contents(e) ==
    IF e = "py"
    THEN {NoCommit} \cup { [readable |-> TRUE, files |-> <<r, c>>] : r \in Files, c \in CfgFiles }
    ELSE {NoCommit} \cup { [readable |-> TRUE, files |-> <<f>>] : f \in Files }

\* Author time of a commit, in days.
AuthorWhen(h) == 400 + 10 * h

\* What the registry knows about a package: version -> release day. With the
\* author times above, 1.1.0 of "a" is 365 days old at commit 1 and older
\* afterwards, 1.2.0 of "a" is released after commit 1 and before commit 2,
\* and 1.1.0 of "b" is a few days old at every commit after the first.
DocAll(pkg) ==
    IF pkg = "a" THEN (V100 :> 40) @@ (V110 :> 45) @@ (V120 :> 415)
    ELSE (V100 :> 40) @@ (V110 :> 405)

\* The registry does not know the version asked for.
DocNone == [v \in {} |-> 0]

\* The outcome of one HTTP request: a transport or status error, or a document.
NetErr == [err |-> TRUE, doc |-> DocNone]

NetAnswers(pkg) == {NetErr} \cup { [err |-> FALSE, doc |-> d] : d \in {DocAll(pkg), DocNone} }

----------------------------------------------------------------------------
(* Release time resolvers *)

EmptyCache == [d \in {} |-> DocNone]

Cached(cache, pkg, ver) == pkg \in DOMAIN cache /\ ver \in DOMAIN cache[pkg]

Resolved(t, cache, net) == [ok |-> TRUE, t |-> t, cache |-> cache, net |-> net]

Unresolved(cache, net) == [ok |-> FALSE, t |-> 0, cache |-> cache, net |-> net]

\* timeCache.get: a cached version is answered from the cache; otherwise the
\* whole document of the package is fetched and replaces the cached one.
npmGet(cache, pkg, ver, ans) ==
    IF Cached(cache, pkg, ver) THEN Resolved(cache[pkg][ver], cache, FALSE)
    ELSE IF ans.err THEN Unresolved(cache, TRUE)
    ELSE LET c2 == (pkg :> ans.doc) @@ cache
         IN  IF ver \in DOMAIN ans.doc THEN Resolved(ans.doc[ver], c2, TRUE)
             ELSE Unresolved(c2, TRUE)

\* goRelTime: a cached version is answered from the cache; otherwise the one
\* version is asked for and cached when the proxy answers.
goRelTime(cache, module, ver, ans) ==
    IF Cached(cache, module, ver) THEN Resolved(cache[module][ver], cache, FALSE)
    ELSE IF ans.err \/ ver \notin DOMAIN ans.doc THEN Unresolved(cache, TRUE)
    ELSE LET m == IF module \in DOMAIN cache THEN cache[module] ELSE DocNone
         IN  Resolved(ans.doc[ver], (module :> ((ver :> ans.doc[ver]) @@ m)) @@ cache, TRUE)

\* pyRel: as goRelTime, on the releases of the package document.
pyRel(cache, pkg, ver, ans) ==
    IF Cached(cache, pkg, ver) THEN Resolved(cache[pkg][ver], cache, FALSE)
    ELSE IF ans.err THEN Unresolved(cache, TRUE)
    ELSE IF ver \notin DOMAIN ans.doc THEN Unresolved(cache, TRUE)
    ELSE LET m == IF pkg \in DOMAIN cache THEN cache[pkg] ELSE DocNone
         IN  Resolved(ans.doc[ver], (pkg :> ((ver :> ans.doc[ver]) @@ m)) @@ cache, TRUE)

----------------------------------------------------------------------------
(* The analyzers *)

VARIABLES eco, maxChanges, hashes, pc, idx, curr, todo, prev, out,
          npmTimes, goCache, pypiCache,
          inited, same, step, discarded, skip,
          maxCommits, lookBackDays, walked, visited, reqs, report, given

vars == <<eco, maxChanges, hashes, pc, idx, curr, todo, prev, out,
          npmTimes, goCache, pypiCache,
          inited, same, step, discarded, skip,
          maxCommits, lookBackDays, walked, visited, reqs, report, given>>

caches == <<npmTimes, goCache, pypiCache>>

\* What the commit loop of an analyzer leaves alone: the flags, the commits
\* git log listed, the count of registry requests and the printed summary.
outside == <<maxCommits, lookBackDays, walked, reqs, report, given>>

\* The repository and the registries as they are during one run, when they
\* are laid down before it: the content of each listed commit and the answer
\* of the registry for each package. Otherwise each read and each request
\* may find anything.
NoGiven == [fixed |-> FALSE, repo |-> <<>>, registry |-> <<>>]

\* What reading the commit at place i may find.
ReadAt(i) == IF given.fixed THEN {given.repo[i]} ELSE Contents(eco)

\* What a request for a package may be answered.
Answers(pkg) == IF given.fixed THEN {given.registry[pkg]} ELSE NetAnswers(pkg)

\* No resolver call has been made.
NoCall == [pkg |-> "", ver |-> <<>>, net |-> FALSE, ok |-> FALSE, warm |-> FALSE,
           t |-> 0, again |-> FALSE, first |-> 0]

\* The record of the resolver calls: how many calls, how many HTTP requests
\* for each (package, version), the packages with a successful lookup so
\* far, and the last call.
NoReqs == [calls |-> 0, count |-> [p \in {} |-> 0], warm |-> {},
           got |-> [p \in {} |-> 0], last |-> NoCall]

\* Nothing has been printed.
NoReport == [printed |-> FALSE, mean |-> <<0, 1>>, median |-> <<0, 1>>, top |-> <<>>]

NoSkip == [ver |-> <<>>, kind |-> "none"]

NoStep == [kind |-> "start", dep |-> "", oldV |-> <<>>, newV |-> <<>>,
           asked |-> FALSE, net |-> FALSE]

\* The merge with the two sources taken in the other order.
MergePyFirstWins(req, cfg) ==
    LET r == IF req.present THEN req.deps ELSE EmptySnapshot
        c == IF cfg.present THEN cfg.deps ELSE EmptySnapshot
    IN  r @@ c

\* analyzePy's merge: requirements.txt first, setup.cfg entries override.
MergePy(req, cfg) ==
    LET r == IF req.present THEN req.deps ELSE EmptySnapshot
        c == IF cfg.present THEN cfg.deps ELSE EmptySnapshot
    IN  c @@ r

\* The snapshot the loop body builds from the commit.
SnapshotOf(e, content) ==
    IF e = "py" THEN MergePy(content.files[1], content.files[2])
    ELSE content.files[1].deps

\* The loop body's `continue` before the snapshot is used.
Skipped(e, content) ==
    IF ~content.readable THEN TRUE
    ELSE IF e = "py" THEN DOMAIN SnapshotOf(e, content) = {}
    ELSE ~content.files[1].present

\* The resolver the analyzer of the ecosystem calls.
Resolve(e, dep, ver, ans) ==
    IF e = "npm" THEN npmGet(npmTimes, dep, ver, ans)
    ELSE IF e = "go" THEN goRelTime(goCache, dep, ver, ans)
    ELSE pyRel(pypiCache, dep, ver, ans)

\* diff := c.Author.When.Sub(rel).Hours() / 24
LagDays(when, rel) == when - rel

\* Mutant: the filter without its upper limit.
ImplausibleNegativeOnly(diff) == diff < 0

\* The plausibility filter: the sample is dropped when diff < 0 || diff > 365.
Implausible(diff) == diff < 0 \/ diff > MaxLagDays

\* Which exit of the range-loop body one dependency takes.
\* Mutant: `> 0` for `>= 0`, so that an equal version passes as an upgrade.
UpgradeEqualPasses(old, new, res, when) ==
    IF old = <<>> \/ new = <<>> THEN "badver"
    ELSE IF semverCompare(old, new) > 0 THEN "notgreater"
    ELSE IF ~res.ok THEN "unresolved"
    ELSE IF Implausible(LagDays(when, res.t)) THEN "implausible"
    ELSE "accept"

\* Mutant: `== 0` for `>= 0`, so that a downgrade passes as an upgrade.
UpgradeAnyChange(old, new, res, when) ==
    IF old = <<>> \/ new = <<>> THEN "badver"
    ELSE IF semverCompare(old, new) = 0 THEN "notgreater"
    ELSE IF ~res.ok THEN "unresolved"
    ELSE IF Implausible(LagDays(when, res.t)) THEN "implausible"
    ELSE "accept"

Upgrade(old, new, res, when) ==
    IF old = <<>> \/ new = <<>> THEN "badver"
    ELSE IF semverCompare(old, new) >= 0 THEN "notgreater"
    ELSE IF ~res.ok THEN "unresolved"
    ELSE IF Implausible(LagDays(when, res.t)) THEN "implausible"
    ELSE "accept"

Outcome(p, dep, newV, res, when) ==
    IF dep \notin DOMAIN p THEN "absent"
    ELSE IF p[dep] = newV THEN "same"
    ELSE Upgrade(canon(p[dep]), canon(newV), res, when)

\* The outcomes that reach the resolver call.
Asked == {"unresolved", "implausible", "accept"}

\* Mutant: the resolver call placed before the comparison of the versions.
InvokedBeforeCompare(kind) == kind \in Asked \cup {"notgreater"}

\* rel, err := npmTimes.get(dep, newV) is reached by the iteration.
Invoked(kind) == kind \in Asked

\* Mutant: the sample is dated to the commit before the one at hand.
DelayPreviousCommit(p, dep, newV, rel, h) ==
    [Dep |-> dep, OldVer |-> p[dep], NewVer |-> newV,
     Days |-> LagDays(AuthorWhen(h - 1), rel), CommitHash |-> h - 1,
     CommitDate |-> AuthorWhen(h - 1)]

\* Mutant: the two versions of the sample written into each other's field.
DelaySwapped(p, dep, newV, rel, h) ==
    [Dep |-> dep, OldVer |-> newV, NewVer |-> p[dep],
     Days |-> LagDays(AuthorWhen(h), rel), CommitHash |-> h,
     CommitDate |-> AuthorWhen(h)]

\* The delay record appended for an accepted upgrade.
Delay(p, dep, newV, rel, h) ==
    [Dep |-> dep, OldVer |-> p[dep], NewVer |-> newV,
     Days |-> LagDays(AuthorWhen(h), rel), CommitHash |-> h,
     CommitDate |-> AuthorWhen(h)]

\* Mutant: the change count is compared also when the rule is not active.
HaltsUnguarded(o) == Len(o) >= maxChanges

\* maxChanges > 0 && len(out) >= maxChanges
Halts(o) == maxChanges > 0 /\ Len(o) >= maxChanges

\* Mutant: prev[dep] = newV moved in front of the checks.
NewPrevAlways(p, dep, newV, kind, halt) ==
    IF dep \in DOMAIN p THEN [p EXCEPT ![dep] = newV] ELSE p

\* Mutant: prev[dep] = newV also after a failed resolution.
NewPrevUnresolved(p, dep, newV, kind, halt) ==
    IF kind \in {"accept", "unresolved"} /\ ~halt THEN [p EXCEPT ![dep] = newV] ELSE p

\* Mutant: prev[dep] = newV left out.
NewPrevNever(p, dep, newV, kind, halt) == p

\* Mutant: a dependency the baseline does not hold is entered into it.
NewPrevAdopts(p, dep, newV, kind, halt) ==
    IF kind = "absent" THEN (dep :> newV) @@ p
    ELSE IF kind = "accept" /\ ~halt THEN [p EXCEPT ![dep] = newV] ELSE p

\* prev[dep] = newV, reached only after an append that did not break the loop.
NewPrev(p, dep, newV, kind, halt) ==
    IF kind = "accept" /\ ~halt THEN [p EXCEPT ![dep] = newV] ELSE p

Init ==
    /\ eco \in Ecos
    /\ maxChanges \in {-1} \cup (1..MaxChanges)
    /\ \E n \in 0..MaxCommits : hashes = [i \in 1..n |-> i - 1]
    /\ pc = "commit"
    /\ idx = 0
    /\ curr = EmptySnapshot
    /\ todo = {}
    /\ prev = EmptySnapshot
    /\ out = <<>>
    /\ npmTimes = EmptyCache
    /\ goCache = EmptyCache
    /\ pypiCache = EmptyCache
    /\ inited = FALSE
    /\ same = {}
    /\ step = NoStep
    /\ discarded = 0
    /\ skip = [d \in Deps |-> NoSkip]
    /\ maxCommits = -1
    /\ lookBackDays = IF maxChanges > 0 THEN -1 ELSE 1
    /\ walked = hashes
    /\ visited = <<>>
    /\ reqs = NoReqs
    /\ report = NoReport
    /\ given = NoGiven

\* Dependencies declared with the same version as in the previous visited snapshot.
SameAs(snap, before) == {d \in DOMAIN snap \cap DOMAIN before : snap[d] = before[d]}

\* A commit without retrievable manifest content: `continue`.
SkipCommit ==
    /\ pc = "commit"
    /\ idx < Len(hashes)
    /\ \E content \in ReadAt(idx + 1) :
         /\ Skipped(eco, content)
         /\ idx' = idx + 1
         /\ step' = [NoStep EXCEPT !.kind = "skip"]
    /\ visited' = Append(visited, hashes[idx + 1])
    /\ UNCHANGED <<eco, maxChanges, hashes, pc, curr, todo, prev, out, caches,
                   inited, same, discarded, skip, outside>>

\* idx == 0: prev = curr; continue
InitBaseline ==
    /\ pc = "commit"
    /\ idx < Len(hashes)
    /\ idx = 0
    /\ \E content \in ReadAt(idx + 1) :
         /\ ~Skipped(eco, content)
         /\ curr' = SnapshotOf(eco, content)
         /\ prev' = SnapshotOf(eco, content)
         /\ same' = SameAs(SnapshotOf(eco, content), curr)
    /\ inited' = TRUE
    /\ idx' = idx + 1
    /\ step' = [NoStep EXCEPT !.kind = "init"]
    /\ visited' = Append(visited, hashes[idx + 1])
    /\ UNCHANGED <<eco, maxChanges, hashes, pc, todo, out, caches, discarded, skip,
                   outside>>

\* idx > 0: the snapshot is diffed against prev, one dependency at a time.
LoadCommit ==
    /\ pc = "commit"
    /\ idx < Len(hashes)
    /\ idx # 0
    /\ \E content \in ReadAt(idx + 1) :
         /\ ~Skipped(eco, content)
         /\ curr' = SnapshotOf(eco, content)
         /\ todo' = DOMAIN SnapshotOf(eco, content)
         /\ same' = SameAs(SnapshotOf(eco, content), curr)
         /\ IF DOMAIN SnapshotOf(eco, content) = {}
            THEN pc' = "commit" /\ idx' = idx + 1
            ELSE pc' = "dep" /\ idx' = idx
    /\ step' = [NoStep EXCEPT !.kind = "load"]
    /\ visited' = Append(visited, hashes[idx + 1])
    /\ UNCHANGED <<eco, maxChanges, hashes, prev, out, caches, inited, discarded, skip,
                   outside>>

\* The state after the iteration of dep with outcome kind and output o2.
DepDone(dep, newV, res, kind, o2, halt, last) ==
    /\ out' = o2
    /\ prev' = NewPrev(prev, dep, newV, kind, halt)
    /\ npmTimes' = IF Invoked(kind) /\ eco = "npm" THEN res.cache ELSE npmTimes
    /\ goCache' = IF Invoked(kind) /\ eco = "go" THEN res.cache ELSE goCache
    /\ pypiCache' = IF Invoked(kind) /\ eco = "py" THEN res.cache ELSE pypiCache
    /\ todo' = todo \ {dep}
    /\ pc' = IF halt THEN "halted" ELSE IF last THEN "commit" ELSE "dep"
    /\ idx' = IF ~halt /\ last THEN idx + 1 ELSE idx
    /\ step' = [kind |-> kind, dep |-> dep,
                oldV |-> IF dep \in DOMAIN prev THEN prev[dep] ELSE <<>>,
                newV |-> newV,
                asked |-> Invoked(kind), net |-> Invoked(kind) /\ res.net]
    /\ discarded' = IF kind = "implausible" THEN discarded + 1 ELSE discarded
    /\ skip' = IF kind \in {"unresolved", "implausible"}
               THEN [skip EXCEPT ![dep] = [ver |-> newV, kind |-> kind]] ELSE skip

\* Mutant: a failed resolution leaves the range loop (`break` for `continue`).
DepAppendBreakOnError(dep, newV, res, kind, o2) ==
    DepDone(dep, newV, res, kind, o2, kind = "accept" /\ Halts(o2),
            todo = {dep} \/ kind = "unresolved")

\* Mutant: an accepted change leaves the range loop of its commit.
DepAppendBreakOnAccept(dep, newV, res, kind, o2) ==
    DepDone(dep, newV, res, kind, o2, kind = "accept" /\ Halts(o2),
            todo = {dep} \/ kind = "accept")

DepAppend(dep, newV, res, kind, o2) ==
    DepDone(dep, newV, res, kind, o2, kind = "accept" /\ Halts(o2), todo = {dep})

\* Mutant: the new sample is put in front of the samples found so far.
DepOutcomePrepend(dep, newV, h, res, kind) ==
    DepAppend(dep, newV, res, kind,
              IF kind = "accept" THEN <<Delay(prev, dep, newV, res.t, h)>> \o out ELSE out)

DepOutcome(dep, newV, h, res, kind) ==
    DepAppend(dep, newV, res, kind,
              IF kind = "accept" THEN Append(out, Delay(prev, dep, newV, res.t, h)) ELSE out)

DepResolve(dep, newV, h, res) ==
    DepOutcome(dep, newV, h, res, Outcome(prev, dep, newV, res, AuthorWhen(h)))

\* One iteration of `for dep, newV := range curr`, in any order of the map.
DepStep ==
    /\ pc = "dep"
    /\ \E dep \in todo : \E ans \in Answers(dep) :
         DepResolve(dep, curr[dep], hashes[idx + 1], Resolve(eco, dep, curr[dep], ans))
    /\ UNCHANGED <<eco, maxChanges, hashes, curr, inited, same, visited, outside>>

\* The commits are exhausted: return out, nil
Finish ==
    /\ pc = "commit"
    /\ idx = Len(hashes)
    /\ pc' = "done"
    /\ step' = [NoStep EXCEPT !.kind = "finish"]
    /\ UNCHANGED <<eco, maxChanges, hashes, idx, curr, todo, prev, out, caches,
                   inited, same, discarded, skip, visited, outside>>

Next == SkipCommit \/ InitBaseline \/ LoadCommit \/ DepStep \/ Finish

Spec == Init /\ [][Next]_vars

----------------------------------------------------------------------------
(* main and the head of the analyzers: flags, repository, commit list *)

MaxDays == 1

MaxWalked == 4

\* What --eco may be given: an ecosystem, the alias of py, an unknown name,
\* or nothing (the default "").
EcoArgs == Ecos \cup {"python", "rust", ""}

\* validateScopeFlags: the number of stop flags that are > 0.
active(commits, changes, days) ==
    (IF commits > 0 THEN 1 ELSE 0) + (IF changes > 0 THEN 1 ELSE 0)
    + (IF days > 0 THEN 1 ELSE 0)

\* Mutant: `active < 1` for `active != 1`.
validateAtLeastOne(commits, changes, days) == ~(active(commits, changes, days) < 1)

\* validateScopeFlags returns (TRUE) or ends the process in log.Fatal (FALSE).
validateScopeFlags(commits, changes, days) == ~(active(commits, changes, days) # 1)

\* getAnalyzer: the analyzer of the ecosystem, or an error.
getAnalyzer(e) ==
    IF e = "npm" THEN [fn |-> "analyzeNPM", err |-> FALSE]
    ELSE IF e = "go" THEN [fn |-> "analyzeGo", err |-> FALSE]
    ELSE IF e \in {"py", "python"} THEN [fn |-> "analyzePy", err |-> FALSE]
    ELSE [fn |-> "none", err |-> TRUE]

Analyzers == {"analyzeNPM", "analyzeGo", "analyzePy"}

\* The hashes git log --reverse prints for a history of n commits: oldest
\* first. A hash is the position of its commit in the history.
Listed(n) == [i \in 1..n |-> i - 1]

\* Mutant: the last maxCommits hashes instead of the first.
TruncateYoungest(hs, n) ==
    IF n > 0 /\ Len(hs) > n THEN SubSeq(hs, Len(hs) - n + 1, Len(hs)) ELSE hs

\* if maxCommits > 0 && len(hashes) > maxCommits { hashes = hashes[:maxCommits] }
Truncate(hs, n) ==
    IF n > 0 /\ Len(hs) > n THEN SubSeq(hs, 1, n) ELSE hs

\* The engine has not started: the state of its variables before the loop.
IdleLoop ==
    /\ hashes = <<>>
    /\ idx = 0
    /\ curr = EmptySnapshot
    /\ todo = {}
    /\ prev = EmptySnapshot
    /\ npmTimes = EmptyCache
    /\ goCache = EmptyCache
    /\ pypiCache = EmptyCache
    /\ inited = FALSE
    /\ same = {}
    /\ step = NoStep
    /\ discarded = 0
    /\ skip = [d \in Deps |-> NoSkip]
    /\ walked = <<>>
    /\ visited = <<>>
    /\ reqs = NoReqs
    /\ report = NoReport
    /\ given = NoGiven

Idle == IdleLoop /\ out = <<>>

\* What the steps of main before the loop leave alone.
loopVars == <<idx, curr, todo, prev, out, caches, inited, same, discarded, skip,
              visited, reqs, report, given>>

flags == <<eco, maxCommits, maxChanges, lookBackDays>>

\* The process starts with any flag values on the command line.
ConfigInit ==
    /\ pc = "main"
    /\ eco \in EcoArgs
    /\ maxCommits \in -1..MaxCommits
    /\ maxChanges \in -1..MaxChanges
    /\ lookBackDays \in -1..MaxDays
    /\ Idle

\* flag.Parse(); if flag.NArg() < 1 { log.Fatal(...) }
ParseArgs ==
    /\ pc = "main"
    /\ \E narg \in {0, 1} : pc' = IF narg < 1 THEN "fatal" ELSE "validateScopeFlags"
    /\ step' = [NoStep EXCEPT !.kind = "main"]
    /\ UNCHANGED <<flags, hashes, walked, loopVars>>

ValidateScopeFlags ==
    /\ pc = "validateScopeFlags"
    /\ pc' = IF validateScopeFlags(maxCommits, maxChanges, lookBackDays)
             THEN "ensureRepo" ELSE "fatal"
    /\ step' = [NoStep EXCEPT !.kind = "validateScopeFlags"]
    /\ UNCHANGED <<flags, hashes, walked, loopVars>>

\* ensureRepo: the clone succeeds, the directory exists, or the clone fails.
EnsureRepo ==
    /\ pc = "ensureRepo"
    /\ \E err \in BOOLEAN : pc' = IF err THEN "fatal" ELSE "getAnalyzer"
    /\ step' = [NoStep EXCEPT !.kind = "ensureRepo"]
    /\ UNCHANGED <<flags, hashes, walked, loopVars>>

\* analyzer, err := getAnalyzer(); delays, err := analyzer(dir)
GetAnalyzer ==
    /\ pc = "getAnalyzer"
    /\ pc' = IF getAnalyzer(eco).err THEN "fatal" ELSE getAnalyzer(eco).fn
    /\ step' = [NoStep EXCEPT !.kind = "getAnalyzer"]
    /\ UNCHANGED <<flags, hashes, walked, loopVars>>

\* commitsTouchingFiles and the truncation: git log fails, and the analyzer
\* returns the error to main, which ends in log.Fatal; or it lists the
\* commits, of which the first maxCommits are kept.
Enumerate ==
    /\ pc \in Analyzers
    /\ \/ /\ pc' = "fatal"
          /\ UNCHANGED <<hashes, walked>>
       \/ \E n \in 0..MaxWalked :
             /\ walked' = Listed(n)
             /\ hashes' = Truncate(Listed(n), maxCommits)
             /\ pc' = "PlainOpen"
    /\ step' = [NoStep EXCEPT !.kind = "commitsTouchingFiles"]
    /\ UNCHANGED <<flags, loopVars>>

\* git.PlainOpen: on an error the analyzer returns it, and main ends in
\* log.Fatal; otherwise the loop over the hashes starts.
PlainOpen ==
    /\ pc = "PlainOpen"
    /\ \E err \in BOOLEAN : pc' = IF err THEN "fatal" ELSE "commit"
    /\ step' = [NoStep EXCEPT !.kind = "PlainOpen"]
    /\ UNCHANGED <<flags, hashes, walked, loopVars>>

ConfigNext ==
    ParseArgs \/ ValidateScopeFlags \/ EnsureRepo \/ GetAnalyzer \/ Enumerate \/ PlainOpen

ConfigSpec == ConfigInit /\ [][ConfigNext]_vars

\* An analyzer is entered with the commit-count rule as the one active rule.
WalkInit ==
    /\ eco \in Ecos
    /\ pc = getAnalyzer(eco).fn
    /\ maxCommits \in 1..MaxCommits
    /\ maxChanges = -1
    /\ lookBackDays = -1
    /\ Idle

WalkNext ==
    Enumerate \/ PlainOpen \/ SkipCommit \/ InitBaseline \/ LoadCommit \/ DepStep \/ Finish

WalkSpec == WalkInit /\ [][WalkNext]_vars

----------------------------------------------------------------------------
(* The resolvers called again and again within one run *)

MaxCalls == 4

\* The versions the resolver of a package is asked for; 1.x is a version no
\* registry knows.
LookupVersions(pkg) == IF pkg = "a" THEN {V100, V110, V1x} ELSE {V100}

\* The HTTP requests made so far for (pkg, ver).
Count(r, pkg, ver) == IF <<pkg, ver>> \in DOMAIN r.count THEN r.count[<<pkg, ver>>] ELSE 0

\* The record after a call for (pkg, ver) that returned res.
Counted(r, pkg, ver, res) ==
    [calls |-> r.calls + 1,
     count |-> IF res.net THEN (<<pkg, ver>> :> (Count(r, pkg, ver) + 1)) @@ r.count
               ELSE r.count,
     warm  |-> IF res.ok THEN r.warm \cup {pkg} ELSE r.warm,
     got   |-> IF res.ok /\ <<pkg, ver>> \notin DOMAIN r.got
               THEN (<<pkg, ver>> :> res.t) @@ r.got ELSE r.got,
     last  |-> [pkg |-> pkg, ver |-> ver, net |-> res.net, ok |-> res.ok,
                warm |-> pkg \in r.warm, t |-> res.t,
                again |-> <<pkg, ver>> \in DOMAIN r.got,
                first |-> IF <<pkg, ver>> \in DOMAIN r.got THEN r.got[<<pkg, ver>>] ELSE 0]]

LookupDone(pkg, ver, res) ==
    /\ npmTimes' = IF eco = "npm" THEN res.cache ELSE npmTimes
    /\ goCache' = IF eco = "go" THEN res.cache ELSE goCache
    /\ pypiCache' = IF eco = "py" THEN res.cache ELSE pypiCache
    /\ reqs' = Counted(reqs, pkg, ver, res)

\* A run of one ecosystem, seen from its resolver.
CacheInit ==
    /\ eco \in Ecos
    /\ pc = "resolve"
    /\ maxCommits = -1
    /\ maxChanges = -1
    /\ lookBackDays = 1
    /\ Idle

\* One call of npmTimes.get, goRelTime or pyRel.
Lookup ==
    /\ pc = "resolve"
    /\ reqs.calls < MaxCalls
    /\ \E pkg \in Deps : \E ver \in LookupVersions(pkg) : \E ans \in NetAnswers(pkg) :
          LookupDone(pkg, ver, Resolve(eco, pkg, ver, ans))
    /\ UNCHANGED <<flags, pc, hashes, walked, idx, curr, todo, prev, out, inited, same,
                   step, discarded, skip, visited, report, given>>

CacheNext == Lookup

CacheSpec == CacheInit /\ [][CacheNext]_vars

----------------------------------------------------------------------------
(* The summary main prints: mean, median and the slowest updates *)

TopN == 10

MaxShort == 4

MaxLag == 5

MaxSamples == 11

\* A number that need not be whole is the pair <<numerator, denominator>>.
RECURSIVE SumOf(_)
\* sum := 0.0; for _, v := range xs { sum += v }
SumOf(xs) == IF xs = <<>> THEN 0 ELSE xs[1] + SumOf(Tail(xs))

mean(xs) == IF Len(xs) = 0 THEN <<0, 1>> ELSE <<SumOf(xs), Len(xs)>>

RECURSIVE Insert(_, _)
Insert(x, s) ==
    IF s = <<>> THEN <<x>>
    ELSE IF x <= s[1] THEN <<x>> \o s
    ELSE <<s[1]>> \o Insert(x, Tail(s))

\* Mutant: the values are left in the order they came in.
Unsorted(xs) == xs

RECURSIVE Float64s(_)
\* sort.Float64s: the values in increasing order.
Float64s(xs) == IF xs = <<>> THEN <<>> ELSE Insert(xs[1], Float64s(Tail(xs)))

\* m := len(xs) / 2, on the sorted values (s[m + 1] is Go's xs[m]).
medianAt(s, m) ==
    IF Len(s) % 2 = 0 THEN <<s[m] + s[m + 1], 2>> ELSE <<s[m + 1], 1>>

medianOf(s) == medianAt(s, Len(s) \div 2)

median(xs) == IF Len(xs) = 0 THEN <<0, 1>> ELSE medianOf(Float64s(xs))

\* vals[i] = d.Days
Vals(ds) == [i \in 1..Len(ds) |-> ds[i].Days]

RECURSIVE Sorts(_, _)
\* sort.Slice with less = delays[i].Days > delays[j].Days: the entries S of
\* ds in an order of non-increasing Days. The sort is not stable, so every
\* such order is a possible result.
Sorts(ds, S) ==
    IF S = {} THEN {<<>>}
    ELSE UNION { { <<ds[i]>> \o r : r \in Sorts(ds, S \ {i}) } :
                 i \in {k \in S : \A l \in S : ds[k].Days >= ds[l].Days} }

\* top := 10; if len(delays) < top { top = len(delays) }
top(n) == IF n < TopN THEN n ELSE TopN

\* The i-th sample the analyzer found, with a lag of d days.
Sample(i, d) ==
    [Dep |-> "a", OldVer |-> V100, NewVer |-> V110, Days |-> d,
     CommitHash |-> i - 1, CommitDate |-> AuthorWhen(i - 1)]

\* The lags of n samples: any lags for a few samples, and for many samples
\* lags that differ except for at most one pair.
Lags(n) ==
    IF n <= MaxShort THEN [1..n -> 1..MaxLag]
    ELSE { [i \in 1..n |-> IF i = j THEN k ELSE i] : j \in 1..n, k \in 1..n }

\* main has the delays of the analyzer in hand.
StatInit ==
    /\ eco = "npm"
    /\ pc = "summary"
    /\ maxCommits = -1
    /\ maxChanges = -1
    /\ lookBackDays = 1
    /\ IdleLoop
    /\ \E n \in 0..MaxSamples : \E lags \in Lags(n) :
          out = [i \in 1..n |-> Sample(i, lags[i])]

\* len(delays) == 0: the note and return; otherwise the summary with mean
\* and median.
Summary ==
    /\ pc = "summary"
    /\ IF Len(out) = 0
       THEN pc' = "done" /\ report' = report
       ELSE /\ pc' = "sort"
            /\ report' = [report EXCEPT !.printed = TRUE, !.mean = mean(Vals(out)),
                                        !.median = median(Vals(out))]
    /\ UNCHANGED <<flags, hashes, walked, idx, curr, todo, prev, out, caches, inited,
                   same, step, discarded, skip, visited, reqs, given>>

\* sort.Slice(delays, ...) and the list of the slowest updates.
Slowest ==
    /\ pc = "sort"
    /\ \E sorted \in Sorts(out, 1..Len(out)) :
          /\ out' = sorted
          /\ report' = [report EXCEPT !.top = SubSeq(sorted, 1, top(Len(sorted)))]
    /\ pc' = "done"
    /\ UNCHANGED <<flags, hashes, walked, idx, curr, todo, prev, caches, inited,
                   same, step, discarded, skip, visited, reqs, given>>

StatNext == Summary \/ Slowest

StatSpec == StatInit /\ [][StatNext]_vars

----------------------------------------------------------------------------
(* Runs over one repository and one registry state, in any iteration order *)

\* The dependency maps the manifests of the repository declare.
FixedSnapshots ==
    { (("a" :> V100) @@ ("b" :> V100)), (("a" :> V110) @@ ("b" :> V100)),
      (("a" :> V110) @@ ("b" :> V110)), (("a" :> V120) @@ ("b" :> V110)),
      ("a" :> V100) }

\* The commits of the repository: the manifest is missing, or it declares
\* one of the maps (for py in requirements.txt, without a setup.cfg).
FixedContents(e) ==
    IF e = "py"
    THEN { [readable |-> TRUE, files |-> <<f, NoFile>>] :
              f \in {NoFile} \cup {File(sn) : sn \in FixedSnapshots} }
    ELSE { [readable |-> TRUE, files |-> <<f>>] :
              f \in {NoFile} \cup {File(sn) : sn \in FixedSnapshots} }

\* The registry of a package during the run: out of reach, or answering
\* with its document.
FixedAnswers(pkg) == {NetErr, [err |-> FALSE, doc |-> DocAll(pkg)]}

\* An analyzer at its loop, over a repository of MaxCommits commits.
OrderInit ==
    /\ eco \in Ecos
    /\ maxChanges \in {-1} \cup (1..MaxChanges)
    /\ hashes = Listed(MaxCommits)
    /\ walked = hashes
    /\ pc = "commit"
    /\ idx = 0
    /\ curr = EmptySnapshot
    /\ todo = {}
    /\ prev = EmptySnapshot
    /\ out = <<>>
    /\ npmTimes = EmptyCache
    /\ goCache = EmptyCache
    /\ pypiCache = EmptyCache
    /\ inited = FALSE
    /\ same = {}
    /\ step = NoStep
    /\ discarded = 0
    /\ skip = [d \in Deps |-> NoSkip]
    /\ maxCommits = -1
    /\ lookBackDays = IF maxChanges > 0 THEN -1 ELSE 1
    /\ visited = <<>>
    /\ reqs = NoReqs
    /\ report = NoReport
    /\ \E repo \in [1..MaxCommits -> FixedContents(eco)] :
          \E registry \in [Deps -> UNION {FixedAnswers(d) : d \in Deps}] :
             /\ \A d \in Deps : registry[d] \in FixedAnswers(d)
             /\ given = [fixed |-> TRUE, repo |-> repo, registry |-> registry]

OrderSpec == OrderInit /\ [][Next]_vars

\* requirements.txt of the commits of a repository with both manifests.
ReqFiles ==
    {NoFile, File(EmptySnapshot), File("a" :> V100),
     File(("a" :> V110) @@ ("b" :> V100)), File("b" :> V110)}

\* The pinned-requirements analyzer at its loop, over a repository whose
\* commits hold any combination of the two manifests.
MergeInit ==
    /\ eco = "py"
    /\ maxChanges = -1
    /\ hashes = Listed(MaxCommits)
    /\ walked = hashes
    /\ pc = "commit"
    /\ idx = 0
    /\ curr = EmptySnapshot
    /\ todo = {}
    /\ prev = EmptySnapshot
    /\ out = <<>>
    /\ npmTimes = EmptyCache
    /\ goCache = EmptyCache
    /\ pypiCache = EmptyCache
    /\ inited = FALSE
    /\ same = {}
    /\ step = NoStep
    /\ discarded = 0
    /\ skip = [d \in Deps |-> NoSkip]
    /\ maxCommits = -1
    /\ lookBackDays = 1
    /\ visited = <<>>
    /\ reqs = NoReqs
    /\ report = NoReport
    /\ \E repo \in [1..MaxCommits ->
                      {NoCommit} \cup { [readable |-> TRUE, files |-> <<r, c>>] :
                                           r \in ReqFiles, c \in CfgFiles }] :
          given = [fixed |-> TRUE, repo |-> repo,
                   registry |-> [d \in Deps |-> [err |-> FALSE, doc |-> DocAll(d)]]]

MergeSpec == MergeInit /\ [][Next]_vars

----------------------------------------------------------------------------
(* Reference order on versions, stated on numbers and not on text *)

\* MAJOR.MINOR.PATCH of the declared versions that are semantic versions.
RefKey == (V100 :> <<1, 0, 0>>) @@ (V110 :> <<1, 1, 0>>) @@ (Vv11 :> <<1, 1, 0>>)
          @@ (V120 :> <<1, 2, 0>>)

RefValid(v) == v \in DOMAIN RefKey

RefLess(v, w) ==
    \/ RefKey[v][1] < RefKey[w][1]
    \/ RefKey[v][1] = RefKey[w][1] /\ RefKey[v][2] < RefKey[w][2]
    \/ RefKey[v][1] = RefKey[w][1] /\ RefKey[v][2] = RefKey[w][2]
       /\ RefKey[v][3] < RefKey[w][3]

\* The baseline entry of a dependency, <<>> when it has none.
Entry(p, d) == IF d \in DOMAIN p THEN p[d] ELSE <<>>

\* The outcomes of one dependency iteration.
DepKinds == {"absent", "same", "badver", "notgreater", "unresolved", "implausible", "accept"}

\* The step just taken emitted an event.
Emitted == Len(out') = Len(out) + 1

----------------------------------------------------------------------------
(* Claims *)

\* C1: a change skipped for a malformed version, for a version that is not
\* strictly greater, or for a failed release-time resolution leaves the
\* baseline as it was; after initialization a baseline entry changes only in
\* a step that takes the dependency through all checks as an upgrade.
C1_BaselineFrame ==
    [][ /\ step'.kind \in {"badver", "notgreater", "unresolved"} => prev' = prev
        /\ step'.kind # "init" =>
             \A d \in Deps :
                Entry(prev', d) # Entry(prev, d) =>
                   /\ step'.kind \in {"accept", "implausible"}
                   /\ step'.dep = d
                   /\ Entry(prev', d) = step'.newV ]_vars

C1_Witness ==
    /\ step.kind = "unresolved"
    /\ step.oldV = V100
    /\ step.newV = V110
    /\ prev[step.dep] = V100

\* C2: a valid upgrade whose lag is negative or above 365 days gives no
\* sample but advances the baseline of its dependency to the new version.
C2_ImplausibleAdvances ==
    step.kind = "implausible" => prev[step.dep] = step.newV

\* C3: with both versions valid, a strictly greater declared version goes on
\* to release-time resolution, and an equal or lower one (also when only the
\* written form differs) is never an upgrade.
C3_UpgradeClassification ==
    (step.kind \in DepKinds \ {"absent"} /\ RefValid(step.oldV) /\ RefValid(step.newV)) =>
        IF RefLess(step.oldV, step.newV)
        THEN step.kind \in Asked
        ELSE step.kind \in {"same", "notgreater"}

C3_Witness ==
    /\ step.kind = "notgreater"
    /\ step.oldV = V110
    /\ step.newV = Vv11

\* C4 as claimed: a dependency declared with the same version as in the
\* previous visited snapshot never produces an event.
C4_UnchangedNeverEmits ==
    step.kind = "accept" => step.dep \notin same

\* C4 amended: such a dependency produces an event only when the baseline is
\* stale, that is when the last change to that very version was skipped after
\* its release time was asked for.
C4_UnchangedEmitsOnlyWhenStale ==
    (step.kind = "accept" /\ step.dep \in same) =>
        /\ skip[step.dep].ver = step.newV
        /\ step.oldV # step.newV

C4_Witness ==
    /\ step.kind = "accept"
    /\ step.dep \in same
    /\ skip[step.dep].kind = "unresolved"

\* C5: a run halted by the accepted-change count N has produced exactly N
\* samples and discarded events.
C5_ExactlyN ==
    pc = "halted" => Len(out) + discarded = maxChanges

\* C6: a commit with manifest content that meets an uninitialized engine
\* becomes the baseline; it is never diffed against an empty baseline.
C6_InitFromFirstVisited ==
    step.kind = "load" => inited

\* C7: a failed resolution emits nothing and leaves the baseline, and every
\* emitted event carries as old version the baseline value of its dependency.
C7_StaleBaseline ==
    [][ /\ step'.kind = "unresolved" => prev' = prev /\ out' = out
        /\ Emitted =>
             /\ out'[Len(out')].Dep \in DOMAIN prev
             /\ out'[Len(out')].OldVer = prev[out'[Len(out')].Dep] ]_vars

C7_Witness ==
    /\ step.kind = "accept"
    /\ step.dep = "a"
    /\ skip["a"] = [ver |-> V110, kind |-> "unresolved"]
    /\ out[Len(out)].OldVer = V100
    /\ out[Len(out)].NewVer = V120

\* C8: a downgrade emits nothing and leaves the baseline, and a baseline
\* entry that holds a valid version never moves to a lower or invalid one.
C8_BaselineNeverDecreases ==
    [][ /\ (step'.kind \in DepKinds /\ RefValid(step'.oldV) /\ RefValid(step'.newV)
            /\ RefLess(step'.newV, step'.oldV)) => prev' = prev /\ out' = out
        /\ \A d \in DOMAIN prev :
              RefValid(prev[d]) =>
                 /\ d \in DOMAIN prev'
                 /\ RefValid(prev'[d])
                 /\ ~RefLess(prev'[d], prev[d]) ]_vars

C8_Witness ==
    /\ step.kind = "notgreater"
    /\ step.oldV = V120
    /\ step.newV = V110
    /\ prev[step.dep] = V120

\* The engine is uninitialized while the next commit with content would
\* become the baseline.
Uninitialized == idx = 0

\* C9: a skipped commit changes neither the output, nor the baseline, nor
\* whether the engine is uninitialized.
C9_SkipChangesNothing ==
    [][ (step'.kind = "skip" /\ idx' # idx) =>
           /\ out' = out
           /\ prev' = prev
           /\ Uninitialized' = Uninitialized ]_vars

\* C10: every sample is a valid strict upgrade with a resolved release time
\* and a lag of 0..365 days between release and commit.
C10_SamplesValid ==
    \A i \in 1..Len(out) :
       /\ RefValid(out[i].OldVer)
       /\ RefValid(out[i].NewVer)
       /\ RefLess(out[i].OldVer, out[i].NewVer)
       /\ out[i].NewVer \in DOMAIN DocAll(out[i].Dep)
       /\ out[i].CommitDate = AuthorWhen(out[i].CommitHash)
       /\ out[i].Days = out[i].CommitDate - DocAll(out[i].Dep)[out[i].NewVer]
       /\ out[i].Days >= 0
       /\ out[i].Days <= MaxLagDays

C10_Witness ==
    \E i \in 1..Len(out) : out[i].Days = MaxLagDays /\ out[i].NewVer = V110

----------------------------------------------------------------------------
(* Claims on the configuration *)

StopRules == {"commits", "changes", "days"}

\* The value a stopping rule was configured with.
RuleValue(r) ==
    IF r = "commits" THEN maxCommits ELSE IF r = "changes" THEN maxChanges
    ELSE lookBackDays

\* The stopping rules that are active.
ActiveRules == {r \in StopRules : RuleValue(r) > 0}

\* The ecosystem selectors the tool supports.
Supported == {"npm", "go", "py", "python"}

\* The run has gone on to the analysis of the repository.
Analysing == pc \in Analyzers \cup {"PlainOpen", "commit"}

\* C11: the run goes on to the analysis only with exactly one active
\* stopping rule and a supported ecosystem; with zero or several active
\* rules it ends in the fatal error of the flag validation, with an unknown
\* ecosystem at the latest in the fatal error of the analyzer choice, and in
\* both cases before the commits are listed or any of them is visited.
C11_ConfigGate ==
    /\ Analysing => Cardinality(ActiveRules) = 1 /\ eco \in Supported
    /\ Cardinality(ActiveRules) # 1 =>
          /\ pc \in {"main", "validateScopeFlags", "fatal"}
          /\ step.kind \in {"start", "main", "validateScopeFlags"}
    /\ eco \notin Supported =>
          /\ pc \in {"main", "validateScopeFlags", "ensureRepo", "getAnalyzer", "fatal"}
          /\ step.kind \in {"start", "main", "validateScopeFlags", "ensureRepo",
                             "getAnalyzer"}
    /\ (Cardinality(ActiveRules) # 1 \/ eco \notin Supported) =>
          walked = <<>> /\ visited = <<>> /\ out = <<>>

C11_Witness ==
    /\ pc = "fatal"
    /\ step.kind = "validateScopeFlags"
    /\ ActiveRules = {"commits", "changes"}

----------------------------------------------------------------------------
(* Claims on the walked commits *)

Min(a, b) == IF a < b THEN a ELSE b

\* The commits have been listed.
HasListed == pc \notin Analyzers /\ step.kind # "start"

\* s is the sequence of the first n entries of t.
IsFirst(s, n, t) == Len(s) = n /\ \A i \in 1..n : s[i] = t[i]

\* s is the sequence of the last n entries of t.
IsLast(s, n, t) == Len(s) = n /\ \A i \in 1..n : s[i] = t[Len(t) - n + i]

C13_YoungestN ==
    pc = "done" => IsLast(visited, Min(maxCommits, Len(walked)), walked)

\* C16: a failed resolution only ends the iteration of its dependency: no
\* sample, no baseline change, the other dependencies of the commit and the
\* later commits follow, and a finished run has visited every commit. A
\* failure to list the commits or to open the repository ends the run in
\* the fatal error, with no commit visited and no sample.
C16_FailureScope ==
    [][ /\ (step'.kind = "unresolved" /\ todo' # todo) =>
              /\ out' = out
              /\ prev' = prev
              /\ todo' = todo \ {step'.dep}
              /\ pc' = IF todo' = {} THEN "commit" ELSE "dep"
              /\ idx' = IF todo' = {} THEN idx + 1 ELSE idx
        /\ pc' = "commit" => todo' = {}
        /\ pc' = "done" => visited' = hashes' /\ todo' = {}
        /\ pc' = "fatal" =>
              /\ step'.kind \in {"commitsTouchingFiles", "PlainOpen"}
              /\ visited' = <<>>
              /\ out' = <<>>
              /\ ~report'.printed
        /\ pc = "fatal" => vars' = vars ]_vars

C16_Witness ==
    /\ pc = "done"
    /\ Len(visited) = 3
    /\ skip["a"].kind = "unresolved"
    /\ skip["b"].kind = "unresolved"
    /\ Len(out) = 1

----------------------------------------------------------------------------
(* Claims on the resolvers *)

\* C14: no resolver makes more than one HTTP request for the same package
\* and version within a run, whatever the first call returned.
C14_AtMostOneRequest ==
    \A p \in DOMAIN reqs.count : reqs.count[p] <= 1

\* C15: once a lookup for a package has succeeded, a lookup for any version
\* the registry knows of that package is answered without an HTTP request.
C15_WholeMapCached ==
    (reqs.last.warm /\ reqs.last.ver \in DOMAIN DocAll(reqs.last.pkg)) => ~reqs.last.net

----------------------------------------------------------------------------
(* Claims on the summary *)

\* The lag values of the samples.
LagValues == {out[i].Days : i \in 1..Len(out)}

\* How many samples have a lag below x, and how many a lag above x.
Below(x) == Cardinality({i \in 1..Len(out) : out[i].Days < x})

Above(x) == Cardinality({i \in 1..Len(out) : out[i].Days > x})

\* The k-th lag in increasing order: fewer than k lags are below it and
\* fewer than k lags from the top are above it.
Kth(k) == CHOOSE x \in LagValues : Below(x) < k /\ Above(x) <= Len(out) - k

RECURSIVE TotalOf(_)
\* The sum of the lags, each value times the number of samples that have it.
TotalOf(S) ==
    IF S = {} THEN 0
    ELSE LET v == CHOOSE x \in S : TRUE
         IN  v * Cardinality({i \in 1..Len(out) : out[i].Days = v}) + TotalOf(S \ {v})

\* The number r = <<numerator, denominator>> is p / q.
Is(r, p, q) == r[2] > 0 /\ r[1] * q = p * r[2]

\* C17: for a non-empty sequence of lags the printed mean is their sum
\* divided by their number, and the printed median is the middle lag in
\* increasing order for an odd number and the average of the two middle lags
\* for an even number, in whatever order the samples were found; the lags
\* 1, 3, 5 give 3 and 3, and the lags 1, 2, 4, 5 give 3 and 3.
C17_MeanMedian ==
    /\ report.printed <=> (Len(out) > 0 /\ pc # "summary")
    /\ report.printed =>
          /\ Is(report.mean, TotalOf(LagValues), Len(out))
          /\ IF Len(out) % 2 = 1
             THEN Is(report.median, Kth((Len(out) + 1) \div 2), 1)
             ELSE Is(report.median, Kth(Len(out) \div 2) + Kth(Len(out) \div 2 + 1), 2)
          /\ (Len(out) = 3 /\ LagValues = {1, 3, 5}) =>
                Is(report.mean, 3, 1) /\ Is(report.median, 3, 1)
          /\ (Len(out) = 4 /\ LagValues = {1, 2, 4, 5}) =>
                Is(report.mean, 3, 1) /\ Is(report.median, 3, 1)

C17_Witness ==
    /\ pc = "sort"
    /\ Vals(out) = <<5, 1, 4, 2>>
    /\ report.mean = <<12, 4>>
    /\ report.median = <<6, 2>>

\* Sample x is ranked before sample y: a greater lag, or the same lag and
\* found earlier.
RankedBefore(x, y) ==
    x.Days > y.Days \/ (x.Days = y.Days /\ x.CommitHash < y.CommitHash)

\* C18: the list of the slowest updates holds min(10, n) of the n samples,
\* by decreasing lag and, for equal lags, in the order they were found; no
\* sample left out would be ranked before a listed one.
C18_RankedStable ==
    (pc = "done" /\ report.printed) =>
       /\ Len(report.top) = Min(TopN, Len(out))
       /\ \A i \in 1..Len(report.top) : \E k \in 1..Len(out) : out[k] = report.top[i]
       /\ \A i, j \in 1..Len(report.top) :
             i < j => RankedBefore(report.top[i], report.top[j])
       /\ \A k \in 1..Len(out) :
             (\A i \in 1..Len(report.top) : report.top[i] # out[k]) =>
                \A i \in 1..Len(report.top) : RankedBefore(report.top[i], out[k])

----------------------------------------------------------------------------
(* Claims on the course of a run *)

\* The engine has reached a final state.
Final == pc \in {"halted", "done"}

\* The place of the state in the order uninitialized, tracking, final.
Phase == IF Final THEN 2 ELSE IF Uninitialized THEN 0 ELSE 1

\* What is left to do: commits not yet finished, dependencies of the commit
\* at hand not yet compared, and the return.
Measure ==
    (Len(hashes) - idx) * (Cardinality(Deps) + 2)
    + (IF pc = "dep" THEN Cardinality(todo)
       ELSE IF pc = "commit" THEN Cardinality(Deps) + 1 ELSE 0)

\* The guards of the loop steps: a commit to read, the return after the last
\* commit, or a dependency of the commit at hand to compare.
CanStep ==
    \/ pc = "commit" /\ idx < Len(hashes) /\ Contents(eco) # {}
    \/ pc = "commit" /\ idx = Len(hashes)
    \/ pc = "dep" /\ \E dep \in todo : dep \in DOMAIN curr /\ NetAnswers(dep) # {}

\* C19: the engine ends in halted or in done and nowhere else: while it is
\* in neither it can take a step, and every step brings it nearer to the
\* end. It goes from uninitialized to tracking to a final state and never
\* back; a final state is left no more; halted is entered only by the
\* sample that fills the active accepted-change count, and done only when
\* the commits are exhausted; the baseline is set as a whole only while the
\* engine is uninitialized.
C19_PhaseOrder ==
    [][ /\ Measure' < Measure
        /\ Measure' >= 0
        /\ ~Final' => CanStep'
        /\ Phase' >= Phase
        /\ ~Final
        /\ pc' = "halted" =>
              maxChanges > 0 /\ Emitted /\ Len(out') = maxChanges
        /\ pc' = "done" =>
              pc = "commit" /\ idx = Len(hashes) /\ out' = out /\ ~Halts(out)
        /\ step'.kind = "init" => Uninitialized /\ ~inited /\ prev = EmptySnapshot
        /\ inited => inited'
        /\ step'.kind # "init" => DOMAIN prev' = DOMAIN prev ]_vars

C19_Witness ==
    /\ pc = "halted"
    /\ maxChanges = 2
    /\ idx = 2
    /\ inited
    /\ Len(out) = 2

\* The change of dependency d was skipped for a failed resolution and the
\* commit at hand declares a version that differs from the baseline.
Retried(d) ==
    /\ skip[d].kind = "unresolved"
    /\ d \in DOMAIN prev
    /\ d \in DOMAIN curr
    /\ curr[d] # prev[d]

\* The step just taken compared a dependency of the commit at hand.
Compared == pc = "dep" /\ todo' # todo

\* C20: a failed resolution leaves the baseline stale; every dependency of a
\* later visited commit is compared with the baseline before the commit is
\* left, and a dependency skipped before whose declared version still
\* differs from the baseline is examined again: a valid upgrade is resolved
\* again and accepted unless the resolution fails or the lag is
\* implausible, and the sample carries the hash and the author time of the
\* commit at hand, from which its lag is counted.
C20_RetryAtLaterCommit ==
    [][ /\ (Compared /\ step'.kind = "unresolved") =>
              /\ prev' = prev
              /\ skip'[step'.dep] = [ver |-> curr[step'.dep], kind |-> "unresolved"]
        /\ step'.kind = "load" => todo' = DOMAIN curr'
        /\ Compared => step'.dep \in todo /\ todo' = todo \ {step'.dep}
        /\ (Compared /\ pc' = "commit") => todo' = {} /\ idx' = idx + 1
        /\ (Compared /\ Retried(step'.dep)) =>
              /\ step'.kind \notin {"absent", "same"}
              /\ step'.oldV = prev[step'.dep]
              /\ step'.newV = curr[step'.dep]
              /\ (RefValid(step'.oldV) /\ RefValid(step'.newV)
                  /\ RefLess(step'.oldV, step'.newV)) => step'.kind \in Asked
              /\ step'.kind = "accept" =>
                    /\ Emitted
                    /\ out'[Len(out')].Dep = step'.dep
                    /\ out'[Len(out')].OldVer = prev[step'.dep]
                    /\ out'[Len(out')].NewVer = curr[step'.dep]
                    /\ out'[Len(out')].CommitHash = visited[Len(visited)]
                    /\ out'[Len(out')].CommitDate = AuthorWhen(visited[Len(visited)])
                    /\ out'[Len(out')].Days =
                          AuthorWhen(visited[Len(visited)])
                          - DocAll(step'.dep)[curr[step'.dep]] ]_vars

C20_Witness ==
    /\ step.kind = "accept"
    /\ step.dep = "b"
    /\ step.dep \in same
    /\ skip["b"] = [ver |-> V110, kind |-> "unresolved"]
    /\ out[Len(out)].NewVer = V110
    /\ out[Len(out)].CommitHash = 2
    /\ out[Len(out)].Days = AuthorWhen(2) - DocAll("b")[V110]

----------------------------------------------------------------------------
(* Claims on the output sequence *)

\* The place of a commit in the oldest-first list handed to the loop.
PlaceOf(h) == CHOOSE i \in 1..Len(hashes) : hashes[i] = h

\* C21: a step of the analyzer leaves the samples found so far as they are
\* and in their places, adding at most one at the end, and in the output a
\* sample never comes before a sample of an older commit.
C21_AppendOnly ==
    [][ /\ Len(out') \in {Len(out), Len(out) + 1}
        /\ \A i \in 1..Len(out) : out'[i] = out[i]
        /\ \A i, j \in 1..Len(out') :
              i < j =>
                 /\ PlaceOf(out'[i].CommitHash) <= PlaceOf(out'[j].CommitHash)
                 /\ out'[i].CommitDate <= out'[j].CommitDate ]_vars

C21_Witness ==
    /\ Len(out) = 2
    /\ out[1].CommitHash = 1
    /\ out[2].CommitHash = 2
    /\ out[1].Dep = out[2].Dep

----------------------------------------------------------------------------
(* Claims on the snapshot of the pinned-requirements analyzer *)

\* The names a manifest file contributes: none when the file is missing.
Names(f) == IF f.present THEN DOMAIN f.deps ELSE {}

\* The commit the loop body has read last.
LastRead == given.repo[Len(visited)]

\* C22: the snapshot analyzePy builds from a commit is the merge of its two
\* manifests: it holds exactly the names of requirements.txt and of the
\* install_requires of setup.cfg, a name of one manifest only with the version
\* of that manifest, a name of both with the version of setup.cfg.
C22_MergedSnapshot ==
    (eco = "py" /\ given.fixed /\ step.kind \in {"init", "load"}) =>
       /\ DOMAIN curr = Names(LastRead.files[1]) \cup Names(LastRead.files[2])
       /\ \A d \in DOMAIN curr :
             /\ d \in Names(LastRead.files[1]) \ Names(LastRead.files[2]) =>
                   curr[d] = LastRead.files[1].deps[d]
             /\ d \in Names(LastRead.files[2]) \ Names(LastRead.files[1]) =>
                   curr[d] = LastRead.files[2].deps[d]
             /\ d \in Names(LastRead.files[1]) \cap Names(LastRead.files[2]) =>
                   curr[d] = LastRead.files[2].deps[d]

C22_Witness ==
    /\ eco = "py" /\ given.fixed /\ step.kind = "load"
    /\ LastRead.files[1] = File(("a" :> V110) @@ ("b" :> V100))
    /\ LastRead.files[2] = File("a" :> V120)
    /\ curr = ("a" :> V120) @@ ("b" :> V100)

----------------------------------------------------------------------------
(* Claims on the events of one dependency *)

\* The events of the output for one dependency, in output order.
EventsOf(d) == SelectSeq(out, LAMBDA e : e.Dep = d)

\* The dependency map of the first commit of the repository, the one the
\* baseline is initialized from when that commit is not skipped.
FirstSnapshot == given.repo[1].files[1].deps

\* C23: the events of a dependency form a chain: the first one starts at the
\* version the baseline-initializing snapshot records for the dependency,
\* every later one starts at the new version of the one before it, and the
\* new versions strictly increase in canonical order.
C23_Chain ==
    given.fixed =>
       \A d \in Deps :
          /\ EventsOf(d) # <<>> =>
                /\ inited
                /\ d \in DOMAIN FirstSnapshot
                /\ EventsOf(d)[1].OldVer = FirstSnapshot[d]
          /\ \A i \in 2..Len(EventsOf(d)) :
                /\ EventsOf(d)[i].OldVer = EventsOf(d)[i - 1].NewVer
                /\ RefValid(EventsOf(d)[i - 1].NewVer)
                /\ RefValid(EventsOf(d)[i].NewVer)
                /\ RefLess(EventsOf(d)[i - 1].NewVer, EventsOf(d)[i].NewVer)

C23_Witness ==
    /\ given.fixed
    /\ Len(EventsOf("a")) = 2
    /\ EventsOf("a")[1].OldVer = V100
    /\ EventsOf("a")[2].NewVer = V120
    /\ Len(EventsOf("b")) = 1

\* C24: the names of the baseline are those of the baseline-initializing
\* snapshot for the whole run (none when the baseline was never initialized),
\* and a dependency that snapshot does not hold has no event, whatever the
\* later commits declare for it.
C24_BaselineNames ==
    given.fixed =>
       /\ DOMAIN prev = (IF inited THEN DOMAIN FirstSnapshot ELSE {})
       /\ \A d \in Deps :
             (inited /\ d \notin DOMAIN FirstSnapshot) => EventsOf(d) = <<>>

C24_Witness ==
    /\ given.fixed /\ inited /\ pc = "done"
    /\ FirstSnapshot = ("a" :> V100)
    /\ given.repo[2].files[1].deps = ("a" :> V110) @@ ("b" :> V100)
    /\ given.repo[3].files[1].deps = ("a" :> V110) @@ ("b" :> V110)
    /\ ~given.registry["b"].err
    /\ DOMAIN prev = {"a"}
    /\ EventsOf("b") = <<>>
    /\ EventsOf("a") # <<>>

----------------------------------------------------------------------------
(* Claims on the calls of the release-time resolver *)

\* C25: the analyzer calls the release-time resolver for a dependency only in
\* a commit after the baseline-initializing one, and only when the dependency
\* is in the baseline, its declared version differs from the baseline entry,
\* both are semantic versions and the declared one is the greater; in every
\* other step no request is made and the caches stay as they are.
C25_ResolveAfterChecks ==
    [][ vars' # vars =>
          /\ step'.asked =>
                /\ pc = "dep" /\ idx > 0 /\ inited
                /\ step'.dep \in todo
                /\ step'.dep \in DOMAIN prev
                /\ prev[step'.dep] # curr[step'.dep]
                /\ RefValid(prev[step'.dep]) /\ RefValid(curr[step'.dep])
                /\ RefLess(prev[step'.dep], curr[step'.dep])
          /\ ~step'.asked => ~step'.net /\ caches' = caches ]_vars

C25_Witness ==
    /\ step.asked /\ step.net /\ step.kind = "accept"
    /\ step.dep = "a" /\ step.oldV = V100 /\ step.newV = V120
    /\ "b" \in DOMAIN prev /\ "b" \in DOMAIN curr /\ prev["b"] = curr["b"]
    /\ npmTimes = ("a" :> DocAll("a"))

----------------------------------------------------------------------------
(* Claims on the iteration order of the dependencies of a commit *)

\* The elements of a sequence.
Range(q) == {q[i] : i \in 1..Len(q)}

\* The version commit i of the repository declares for d, <<>> when none.
Declared(d, i) ==
    IF ~given.repo[i].readable THEN <<>>
    ELSE IF Len(given.repo[i].files) = 2 /\ d \in Names(given.repo[i].files[2])
         THEN given.repo[i].files[2].deps[d]
    ELSE IF d \in Names(given.repo[i].files[1]) THEN given.repo[i].files[1].deps[d]
    ELSE <<>>

\* The dependencies commit i declares, by name.
DeclaredSeq(i) ==
    (IF Declared("a", i) # <<>> THEN <<"a">> ELSE <<>>) \o
    (IF Declared("b", i) # <<>> THEN <<"b">> ELSE <<>>)

\* The first commit of the repository initializes the baseline.
RefInited ==
    /\ given.repo[1].readable
    /\ IF eco = "py" THEN DeclaredSeq(1) # <<>> ELSE given.repo[1].files[1].present

\* The change of d from b to v at commit i is an accepted upgrade.
RefAccept(d, b, v, i) ==
    /\ b # <<>> /\ v # <<>> /\ b # v
    /\ RefValid(b) /\ RefValid(v) /\ RefLess(b, v)
    /\ ~given.registry[d].err
    /\ v \in DOMAIN given.registry[d].doc
    /\ AuthorWhen(i - 1) - given.registry[d].doc[v] \in 0..MaxLagDays

RefEvent(d, b, v, i) ==
    [Dep |-> d, OldVer |-> b, NewVer |-> v,
     Days |-> AuthorWhen(i - 1) - given.registry[d].doc[v],
     CommitHash |-> i - 1, CommitDate |-> AuthorWhen(i - 1)]

\* The run that takes the dependencies of every commit by name: the baseline
\* p and the events o after the dependencies ds of commit i and all later
\* commits.
RECURSIVE RefWalk(_, _, _, _)
RefWalk(i, ds, p, o) ==
    IF i > Len(given.repo) THEN [prev |-> p, out |-> o, halted |-> FALSE]
    ELSE IF ds = <<>>
         THEN IF i = Len(given.repo) THEN [prev |-> p, out |-> o, halted |-> FALSE]
              ELSE RefWalk(i + 1, DeclaredSeq(i + 1), p, o)
    ELSE IF ~RefAccept(Head(ds), Entry(p, Head(ds)), Declared(Head(ds), i), i)
         THEN RefWalk(i, Tail(ds), p, o)
    ELSE IF maxChanges > 0 /\ Len(o) + 1 >= maxChanges
         THEN [prev |-> p, halted |-> TRUE,
               out |-> Append(o, RefEvent(Head(ds), p[Head(ds)], Declared(Head(ds), i), i))]
    ELSE RefWalk(i, Tail(ds), [p EXCEPT ![Head(ds)] = Declared(Head(ds), i)],
                 Append(o, RefEvent(Head(ds), p[Head(ds)], Declared(Head(ds), i), i)))

RefRun ==
    IF ~RefInited \/ Len(given.repo) = 1
    THEN [prev |-> IF RefInited THEN [d \in Range(DeclaredSeq(1)) |-> Declared(d, 1)]
                   ELSE EmptySnapshot,
          out |-> <<>>, halted |-> FALSE]
    ELSE RefWalk(2, DeclaredSeq(2), [d \in Range(DeclaredSeq(1)) |-> Declared(d, 1)], <<>>)

\* C26: without the change-count rule, a run over a given repository and a
\* given registry ends with the events and the baseline of the run that takes
\* the dependencies by name, in whatever order it took them itself: so any
\* two runs end with the same set of events and the same baseline.
C26_OrderFree ==
    (given.fixed /\ maxChanges <= 0 /\ Final) =>
       /\ Range(out) = Range(RefRun.out)
       /\ prev = RefRun.prev

C26_Witness ==
    /\ given.fixed /\ maxChanges <= 0 /\ pc = "done"
    /\ Len(out) = 3
    /\ out[1].Dep = "b" /\ out[2].Dep = "a" /\ out[1].CommitHash = out[2].CommitHash

\* C27: with the change-count rule, a run that halts over a given repository
\* and a given registry holds at the halt the events of the run that takes
\* the dependencies by name, in whatever order it took those of the halting
\* commit itself: so any two runs halt with the same set of events.
C27_HaltOrderFree ==
    (given.fixed /\ maxChanges > 0 /\ pc = "halted") =>
       /\ RefRun.halted
       /\ Range(out) = Range(RefRun.out)

----------------------------------------------------------------------------
(* Claims on repeated lookups *)

\* C28: a call of a resolver for a package and version it has returned a
\* release time for before returns that same time again and makes no HTTP
\* request, whatever was looked up in between and whatever the registry
\* answered then.
C28_StableAnswer ==
    reqs.last.again =>
       /\ reqs.last.ok
       /\ ~reqs.last.net
       /\ reqs.last.t = reqs.last.first

====
